---- MODULE Spec2Model ----
(***************************************************************************)
(* WaveMQ packet layer (MQTT 3.1.1): the remaining-length varint routines  *)
(* and the packet encode/decode of packet.go, modelled from the source.    *)
(*                                                                         *)
(* Four specifications share the variables:                               *)
(*   SpecVarint  the pure remaining-length routines applied to inputs      *)
(*               drawn from bounded sets (variable rl);                    *)
(*   SpecFields  the string routines and the Encode methods of the CONNECT *)
(*               variable header and payload (variable str);               *)
(*   SpecClient  the Client and its SubscribeTo and PublishOn (variables   *)
(*               client, gob, reg);                                        *)
(*   Spec        packet construction, packet.encode and packet.decode      *)
(*               (variables p, q, res).                                    *)
(***************************************************************************)
EXTENDS Integers, Sequences, FiniteSets, TLC

VARIABLES
    p,      \* the packet being built and encoded (type packet)
    q,      \* the packet that receives a decode (a fresh packet{})
    res,    \* what the last packet operation was given and returned
    rl,     \* what the last remaining-length routine was given and returned
    str,    \* what the last string or field routine was given and returned
    client, \* the Client of the application
    gob,    \* the types registered with encoding/gob
    reg     \* what the last SubscribeTo or PublishOn was given, and what its
            \* registerMessage returned

vars == <<p, q, res, rl, str, client, gob, reg>>

(***************************************************************************)
(* Bounds of the model                                                     *)
(***************************************************************************)

\* Longest byte sequence handed to decodeRemainingLength.
MaxInput == 5

\* How far on each side of a power of 128 the lengths handed to
\* encodeRemainingLength spread.
Span == 1

\* Longest payload written out byte by byte.
MaxPayload == 2

(***************************************************************************)
(* Bytes and integers of fixed width                                       *)
(***************************************************************************)

Byte == 0..255

RECURSIVE Pow128(_)
Pow128(k) == IF k = 0 THEN 1 ELSE 128 * Pow128(k - 1)

\* The greatest length the model hands to the codec.  The source's lengths are
\* uint32; the model checker's integers end at 2^31 - 1, so the upper half of
\* the uint32 range (and the wrap of a sum at 2^32) is outside the model.
MaxLength == (Pow128(4) - 1) * 8 + 7

\* The largest value four base-128 digits hold (MQTT 3.1.1, 2.2.3).
MaxRemainingLength == Pow128(4) - 1

\* a | b on bytes, bit by bit.
RECURSIVE BitOr(_, _)
BitOr(a, b) ==
    IF a = 0 THEN b
    ELSE IF b = 0 THEN a
    ELSE (IF (a % 2 = 1) \/ (b % 2 = 1) THEN 1 ELSE 0) + 2 * BitOr(a \div 2, b \div 2)

\* The byte sequences of length 0..n over the alphabet S.
SeqsUpTo(S, n) == UNION {[1..k -> S] : k \in 0..n}

(***************************************************************************)
(* Remaining length (part_000, lines 565-609; packet.go, lines 324-364)    *)
(***************************************************************************)

\* encodeRemainingLength(length uint32) []byte
RECURSIVE encodeRemainingLength(_)
encodeRemainingLength(length) ==
    IF length > 0
    THEN LET encoded == length % 128
             rest    == length \div 128
         IN  <<IF rest > 0 THEN encoded + 128 ELSE encoded>>
                 \o encodeRemainingLength(rest)
    ELSE <<>>

\* The loop of decodeRemainingLength(buf []byte): buf[index] is read with no
\* check of index against len(buf), so running off the end is a run-time panic
\* (index out of range).  index is 1-based here, 0-based in the source.  The
\* loop returns once multiplier passes 128^3, so value and multiplier stay
\* below 2^29 and the uint32 arithmetic never wraps.
RECURSIVE decodeLoop(_, _, _, _)
decodeLoop(buf, index, value, multiplier) ==
    IF index > Len(buf)
    THEN [value |-> 0, err |-> "panic"]
    ELSE LET encoded == buf[index]
             v       == value + (encoded % 128) * multiplier
             m       == multiplier * 128
         IN  IF m > 128 * 128 * 128
             THEN [value |-> 0, err |-> "Malformed remaining length"]
             ELSE IF encoded >= 128
                  THEN decodeLoop(buf, index + 1, v, m)
                  ELSE [value |-> v, err |-> "nil"]

\* decodeRemainingLength(buf []byte) (value uint32, err error)
decodeRemainingLength(buf) == decodeLoop(buf, 1, 0, 1)

\* The loop of the earlier decodeRemainingLength(p *packet), which reads from
\* p.buffer with ReadByte: every byte read is consumed from the buffer, and a
\* read from an empty buffer returns io.EOF.  buffer is the unread part.
RECURSIVE readLoop(_, _, _)
readLoop(buffer, value, multiplier) ==
    IF buffer = <<>>
    THEN [value |-> 0, err |-> "EOF", buffer |-> buffer]
    ELSE LET encoded == Head(buffer)
             unread  == Tail(buffer)
             v       == value + (encoded % 128) * multiplier
             m       == multiplier * 128
         IN  IF m > 128 * 128 * 128
             THEN [value |-> 0, err |-> "Malformed remaining length",
                   buffer |-> unread]
             ELSE IF encoded >= 128
                  THEN readLoop(unread, v, m)
                  ELSE [value |-> v, err |-> "nil", buffer |-> unread]

\* decodeRemainingLength(p *packet) (value uint32, err error), on p.buffer
decodeRemainingLengthBuffer(buffer) == readLoop(buffer, 0, 1)

\* The lengths handed to encodeRemainingLength: those of the repository's test,
\* the ends of the modelled range and the neighbours of every power of 128.
TestLengths == {34, 1234567, 999999999}

Lengths ==
    {0, MaxLength} \cup TestLengths
        \cup {Pow128(k) + d : k \in 0..4, d \in 0..Span}
        \cup {Pow128(k) - d : k \in 1..4, d \in 1..(Span + 1)}

\* The bytes the inputs of decodeRemainingLength are made of: the least and
\* the greatest byte with and without the continuation bit.
InputBytes == {0, 1, 127, 128, 255}

Inputs == SeqsUpTo(InputBytes, MaxInput)

\* One call is followed from the state in which no routine has been called yet:
\* the routines are pure, so what a call returns does not depend on the calls
\* before it.
NoCall == [op |-> "none", n |-> 0, enc |-> <<>>, input |-> <<>>,
           value |-> 0, err |-> "nil", buffer |-> <<>>]

\* buf := encodeRemainingLength(n)
EncodeRemainingLength ==
    /\ rl.op = "none"
    /\ \E n \in Lengths :
           rl' = [NoCall EXCEPT !.op = "encode", !.n = n,
                                !.enc = encodeRemainingLength(n)]
    /\ UNCHANGED <<p, q, res, str, client, gob, reg>>

\* resultLength, err := decodeRemainingLength(buf), buf the bytes just encoded
\* (TestEncodeRemainingLength).
DecodeEncoded ==
    /\ rl.op = "encode"
    /\ LET r == decodeRemainingLength(rl.enc)
       IN  rl' = [rl EXCEPT !.op = "roundtrip", !.input = rl.enc,
                            !.value = r.value, !.err = r.err,
                            !.buffer = rl.enc]
    /\ UNCHANGED <<p, q, res, str, client, gob, reg>>

\* value, err := decodeRemainingLength(buf) on any bytes.
DecodeRemainingLength ==
    /\ rl.op = "none"
    /\ \E buf \in Inputs :
           LET r == decodeRemainingLength(buf)
           IN  rl' = [NoCall EXCEPT !.op = "decode", !.input = buf,
                                    !.value = r.value, !.err = r.err,
                                    !.buffer = buf]
    /\ UNCHANGED <<p, q, res, str, client, gob, reg>>

\* value, err := decodeRemainingLength(p), p.buffer holding the bytes unread.
DecodeRemainingLengthBuffer ==
    /\ rl.op = "none"
    /\ \E buf \in Inputs :
           LET r == decodeRemainingLengthBuffer(buf)
           IN  rl' = [NoCall EXCEPT !.op = "read", !.input = buf,
                                    !.value = r.value, !.err = r.err,
                                    !.buffer = r.buffer]
    /\ UNCHANGED <<p, q, res, str, client, gob, reg>>

(***************************************************************************)
(* Packets (part_000, lines 23-113 and 249-501)                            *)
(***************************************************************************)

ptypeConnect == 16
ptypeConnack == 32
ptypePublish == 48
ptypePuback == 64
ptypePubrec == 80
ptypePubrel == 96
ptypePubcomp == 112
ptypeSubscribe == 128
ptypeSuback == 144
ptypeUnsubscribe == 160
ptypeUnsuback == 176
ptypePingreq == 192
ptypePingresp == 208
ptypeDisconnect == 224

pflagsConnect == 0
pflagsConnack == 0
pflagsPuback == 0
pflagsPubrec == 0
pflagsPubrel == 2
pflagsPubcomp == 0
pflagsSubscribe == 2
pflagsSuback == 0
pflagsUnsubscribe == 2
pflagsUnsuback == 0
pflagsPingreq == 0
pflagsPingresp == 0
pflagsDisconnect == 0

QoSAtMostOnce == 0
QoSAtLeastOnce == 2
QoSExactlyOnce == 4

QoSLevel == {QoSAtMostOnce, QoSAtLeastOnce, QoSExactlyOnce}

\* A []byte or the contents of a bytes.Buffer: the bytes b followed by z bytes
\* 0x00.  z stands for a payload too long to write out (a zero-filled slice of
\* some hundred megabytes); every other byte string has z = 0.
Bytes(b) == [b |-> b, z |-> 0]

ZeroFilled(n) == [b |-> <<>>, z |-> n]

BLen(s) == Len(s.b) + s.z

\* bytes.Buffer.Write: s is appended to buf.
Write(buf, s) ==
    IF buf.z = 0 THEN [b |-> buf.b \o s.b, z |-> s.z]
    ELSE IF s.b = <<>> THEN [b |-> buf.b, z |-> buf.z + s.z]
    ELSE [b |-> buf.b \o [i \in 1..buf.z |-> 0] \o s.b, z |-> s.z]

\* The nil interface value of the field properties.
NilProperties == [kind |-> "nil"]

\* The nil slice of the field payload, and a slice that is not nil.
NilPayload == [nil |-> TRUE, b |-> <<>>, z |-> 0]

Payload(s) == [nil |-> FALSE, b |-> s.b, z |-> s.z]

\* packet{}: the zero value of type packet.
ZeroPacket ==
    [ptype |-> 0, pflags |-> 0, length |-> 0, properties |-> NilProperties,
     payload |-> NilPayload, buffer |-> Bytes(<<>>)]

\* byte(x & 0xF0) and byte(x & 0x0F) of a uint16 x.
AndF0(x) == ((x \div 16) % 16) * 16

And0F(x) == x % 16

\* ConnectAckProperties.Encode
ConnectAckPropertiesEncode(h) ==
    [buf |-> <<IF h.SessionPresent THEN 1 ELSE 0, h.ReturnCode % 256>>,
     err |-> "nil"]

\* PublishProperties.Encode: the two bytes taken from the length of the topic
\* name and the two taken from the packet identifier.
PublishPropertiesEncode(h) ==
    LET topicNameLength == Len(h.TopicName) % 65536
    IN  [buf |-> <<AndF0(topicNameLength), And0F(topicNameLength),
                   AndF0(h.PacketID), And0F(h.PacketID)>>,
         err |-> "nil"]

\* PublishAckProperties.Encode, PublishRecProperties.Encode,
\* PublishRelProperties.Encode, PublishCompProperties.Encode and
\* UnsubscribeAckProperties.Encode: the same two bytes.
PacketIDPropertiesEncode(h) ==
    [buf |-> <<AndF0(h.PacketID), And0F(h.PacketID)>>, err |-> "nil"]

(***************************************************************************)
(* UTF-8 (the Go library routines the string routines call)               *)
(***************************************************************************)

\* unicode.ReplacementChar and utf8.RuneError, U+FFFD.
ReplacementChar == 65533

Continuation(b) == b \in 128..191

\* utf8.DecodeRune and bytes.Buffer.ReadRune on a non-empty byte sequence: the
\* rune at its head and the number of bytes it takes; an invalid or truncated
\* sequence is (RuneError, 1).
DecodeRune(bytes) ==
    LET n  == Len(bytes)
        b0 == bytes[1]
        invalid == [r |-> ReplacementChar, size |-> 1]
    IN  IF b0 < 128 THEN [r |-> b0, size |-> 1]
        ELSE IF b0 \in 194..223
        THEN IF n >= 2 /\ Continuation(bytes[2])
             THEN [r |-> (b0 % 32) * 64 + (bytes[2] % 64), size |-> 2]
             ELSE invalid
        ELSE IF b0 \in 224..239
        THEN IF /\ n >= 3
                /\ bytes[2] \in (IF b0 = 224 THEN 160..191
                                 ELSE IF b0 = 237 THEN 128..159 ELSE 128..191)
                /\ Continuation(bytes[3])
             THEN [r |-> (b0 % 16) * 4096 + (bytes[2] % 64) * 64 + (bytes[3] % 64),
                   size |-> 3]
             ELSE invalid
        ELSE IF b0 \in 240..244
        THEN IF /\ n >= 4
                /\ bytes[2] \in (IF b0 = 240 THEN 144..191
                                 ELSE IF b0 = 244 THEN 128..143 ELSE 128..191)
                /\ Continuation(bytes[3])
                /\ Continuation(bytes[4])
             THEN [r |-> (b0 % 8) * 262144 + (bytes[2] % 64) * 4096
                            + (bytes[3] % 64) * 64 + (bytes[4] % 64),
                   size |-> 4]
             ELSE invalid
        ELSE invalid

\* utf8.ValidRune
ValidRune(r) == r \in 0..55295 \/ r \in 57344..1114111

\* bytes.Buffer.WriteRune and string(rune): the UTF-8 bytes of r, those of
\* U+FFFD when r is no valid rune.
EncodeRune(r) ==
    IF r < 0 \/ ~ValidRune(r) THEN <<239, 191, 189>>
    ELSE IF r < 128 THEN <<r>>
    ELSE IF r < 2048 THEN <<192 + (r \div 64), 128 + (r % 64)>>
    ELSE IF r < 65536
    THEN <<224 + (r \div 4096), 128 + ((r \div 64) % 64), 128 + (r % 64)>>
    ELSE <<240 + (r \div 262144), 128 + ((r \div 4096) % 64),
           128 + ((r \div 64) % 64), 128 + (r % 64)>>

\* The runes a string is made of, an invalid byte counted as U+FFFD.
RECURSIVE Runes(_)
Runes(s) ==
    IF s = <<>> THEN <<>>
    ELSE LET d == DecodeRune(s)
         IN  <<d.r>> \o Runes(SubSeq(s, d.size + 1, Len(s)))

\* string(runes)
RECURSIVE StringOfRunes(_)
StringOfRunes(runes) ==
    IF runes = <<>> THEN <<>>
    ELSE EncodeRune(Head(runes)) \o StringOfRunes(Tail(runes))

\* r <= 31 || (127 <= r && r <= 159)
IsControl(r) == r <= 31 \/ (127 <= r /\ r <= 159)

(***************************************************************************)
(* Strings (part_000, lines 506-563)                                       *)
(***************************************************************************)

\* The loop of writeIfValidUtf8, "for c := range s { r := rune(c) ... }", from
\* the rune of s that starts at byte index (0-based) on.  c is the first value
\* of the range, the byte index, so the rune tested and written is the index,
\* not the character of s that starts there.
RECURSIVE writeLoop(_, _, _)
writeLoop(buf, s, index) ==
    IF index >= Len(s) THEN [buf |-> buf, err |-> "nil"]
    ELSE LET r == index
         IN  IF ~ValidRune(r)
             THEN [buf |-> buf, err |-> "Invalid UTF-8 encoded string"]
             ELSE IF r = 0
             THEN [buf |-> buf, err |-> "NULL character"]
             ELSE IF IsControl(r)
             THEN [buf |-> buf, err |-> "control characters"]
             ELSE writeLoop(buf \o EncodeRune(r), s,
                            index + DecodeRune(SubSeq(s, index + 1, Len(s))).size)

\* writeIfValidUtf8(buf *bytes.Buffer, s string, writeLength bool) error: the
\* buffer after the call and the error.
writeIfValidUtf8(buf, s, writeLength) ==
    LET length == Len(s) % 65536
        head   == IF writeLength
                  THEN buf \o <<AndF0(length), And0F(length)>>
                  ELSE buf
    IN  writeLoop(head, s, 0)

\* The loop of readIfValidUtf8: runes read so far, bytes unread, size left.
RECURSIVE readRunes(_, _, _)
readRunes(runes, buf, size) ==
    IF size <= 0 THEN [s |-> StringOfRunes(runes), err |-> "nil", buf |-> buf]
    ELSE IF buf = <<>> THEN [s |-> <<>>, err |-> "EOF", buf |-> buf]
    ELSE LET d    == DecodeRune(buf)
             rest == SubSeq(buf, d.size + 1, Len(buf))
         IN  IF d.r = 0
             THEN [s |-> <<>>, err |-> "NULL character", buf |-> rest]
             ELSE IF d.r = ReplacementChar
             THEN [s |-> <<>>, err |-> "Invalid UTF-8 encoded rune", buf |-> rest]
             ELSE IF IsControl(d.r)
             THEN [s |-> <<>>, err |-> "control characters", buf |-> rest]
             ELSE readRunes(Append(runes, d.r), rest, size - d.size)

\* readIfValidUtf8(buf *bytes.Buffer, size int) (string, error).  runes starts
\* as make([]rune, 1): one rune, U+0000, ahead of every rune read.
readIfValidUtf8(buf, size) == readRunes(<<0>>, buf, size)

(***************************************************************************)
(* CONNECT variable header and payload (part_000, lines 132-247)           *)
(***************************************************************************)

\* The zero value of ConnectProperties.
ZeroConnectProperties ==
    [ProtocolName |-> <<>>, ProtocolLevel |-> 0, CleanSession |-> FALSE,
     WillFlag |-> FALSE, WillQoS |-> FALSE, WillRetain |-> FALSE,
     UserName |-> FALSE, Password |-> FALSE, KeepAlive |-> 0]

\* The byte ConnectProperties.Encode builds from the flags.  WillQoS is a
\* bool and sets 0x08.
ConnectFlagsByte(h) ==
    (IF h.CleanSession THEN 2 ELSE 0)
        + (IF h.WillFlag THEN 4 ELSE 0)
        + (IF h.WillQoS THEN 8 ELSE 0)
        + (IF h.WillRetain THEN 32 ELSE 0)
        + (IF h.Password THEN 64 ELSE 0)
        + (IF h.UserName THEN 128 ELSE 0)

\* func (h ConnectProperties) Encode() (buf []byte, err error): the protocol
\* name through writeIfValidUtf8, the flags byte and the two keep-alive
\* bytes.  ProtocolLevel is not written.
ConnectPropertiesEncode(h) ==
    LET name == writeIfValidUtf8(<<>>, h.ProtocolName, TRUE)
    IN  IF name.err # "nil" THEN [buf |-> <<>>, err |-> name.err]
        ELSE [buf |-> name.buf \o <<ConnectFlagsByte(h)>>
                          \o <<AndF0(h.KeepAlive), And0F(h.KeepAlive)>>,
              err |-> "nil"]

\* The zero value of ConnectPayload.
ZeroConnectPayload ==
    [Identifier |-> <<>>, WillTopic |-> <<>>, WillMessage |-> <<>>,
     UserName |-> <<>>, Password |-> <<>>]

\* The bytes of A-Z, a-z and 0-9.
Alnum == (65..90) \cup (97..122) \cup (48..57)

\* regexp.MatchString("[^A-Za-z0-9]+", s): some character of s is outside the
\* three ranges (every byte of a character beyond ASCII is).
MatchesNonAlnum(s) == \E i \in 1..Len(s) : s[i] \notin Alnum

\* utf8.ValidString
ValidString(s) == \A i \in 1..Len(Runes(s)) : Runes(s)[i] # ReplacementChar

\* A field written when it is not empty.
writeIfNotEmpty(w, s) ==
    IF w.err # "nil" \/ Len(s) = 0 THEN w ELSE writeIfValidUtf8(w.buf, s, TRUE)

\* func (p ConnectPayload) Encode() ([]byte, error).  The function ends with
\* "return buf, err" without declaring buf; the bytes of buffer are taken.
ConnectPayloadEncode(pl) ==
    LET l        == Len(pl.Identifier)
        id       == writeIfValidUtf8(<<>>, pl.Identifier, TRUE)
        message  == writeIfNotEmpty(writeIfNotEmpty(id, pl.WillTopic), pl.WillMessage)
        ulength  == Len(pl.UserName) % 65536
        plength  == Len(pl.Password) % 65536
    IN  IF MatchesNonAlnum(pl.Identifier)
        THEN [buf |-> <<>>, err |-> "Client identifier must only contain characters"]
        ELSE IF 1 <= l /\ l <= 23
        THEN [buf |-> <<>>, err |-> "Client identifier must be between 1 and 23 bytes"]
        ELSE IF message.err # "nil"
        THEN [buf |-> <<>>, err |-> message.err]
        ELSE IF ~ValidString(pl.UserName)
        THEN [buf |-> <<>>, err |-> "Invalid UTF-8 encoded user name"]
        ELSE [buf |-> message.buf
                          \o <<AndF0(ulength), And0F(ulength)>> \o pl.UserName
                          \o <<AndF0(plength), And0F(plength)>> \o pl.Password,
              err |-> "nil"]

(***************************************************************************)
(* SUBSCRIBE and UNSUBSCRIBE payloads (part_000, lines 376-486)            *)
(***************************************************************************)

\* The loop "for topic, qos := range p.Topics" over the entries of the map in
\* the order the range yields them.
RECURSIVE topicsLoop(_, _)
topicsLoop(buffer, entries) ==
    IF entries = <<>> THEN [buf |-> buffer, err |-> "nil"]
    ELSE LET topic  == Head(entries).topic
             qos    == Head(entries).qos
             buflen == Len(topic) % 65536
         IN  IF ~ValidString(topic)
             THEN [buf |-> <<>>, err |-> "Invalid UTF-8 encoded topic"]
             ELSE topicsLoop(buffer \o <<AndF0(buflen), And0F(buflen)>> \o topic
                                    \o <<qos \div 2>>,
                             Tail(entries))

\* func (p SubscribePayload) Encode() (buf []byte, err error).  Topics is the
\* map as the sequence of its entries in the order of iteration.
SubscribePayloadEncode(pl) ==
    IF Len(pl.Topics) = 0
    THEN [buf |-> <<>>, err |-> "SUBSCRIBE payload must have at least one topic"]
    ELSE topicsLoop(<<>>, pl.Topics)

\* func (p UnsubscribePayload) Encode() (buf []byte, err error)
UnsubscribePayloadEncode(pl) ==
    IF Len(pl.Topics) = 0
    THEN [buf |-> <<>>, err |-> "SUBSCRIBE payload must have at least one topic"]
    ELSE topicsLoop(<<>>, pl.Topics)

\* The value the composite literals of the constructors keep of
\* payload.Encode(): the bytes, nil with an error; the error has no place in
\* the packet and the constructors return none.
EncodedPayload(r) == IF r.err # "nil" THEN NilPayload ELSE Payload(Bytes(r.buf))

\* p.properties.Encode(), dispatched on the dynamic type of properties.
PropertiesEncode(h) ==
    CASE h.kind = "ConnectAckProperties" -> ConnectAckPropertiesEncode(h)
      [] h.kind = "PublishProperties" -> PublishPropertiesEncode(h)
      [] h.kind = "UnsubscribePayload" -> UnsubscribePayloadEncode(h)
      [] OTHER -> PacketIDPropertiesEncode(h)

(***************************************************************************)
(* Client (part_004, lines 94-145)                                         *)
(***************************************************************************)

\* A map[string]bool: nil, or made and holding the keys mapped to true (no
\* code stores false).
NilMap == [nil |-> TRUE, keys |-> {}]

\* The zero value Client{}: every map of it is nil.
ZeroClient == [Name |-> "", Persist |-> FALSE, messages |-> NilMap]

\* The nil interface value as the Message of a Topic.
NilMessage == [id |-> 0, name |-> "", encodeable |-> FALSE]

\* The message types of an application: id tells the types apart, name is
\* reflect.TypeOf(message).String(), the package name and the type name.  The
\* third and the fourth are the type Message of two packages both named msg.
MessageTypes ==
    {[id |-> 1, name |-> "main.Message", encodeable |-> FALSE],
     [id |-> 2, name |-> "main.Custom", encodeable |-> TRUE],
     [id |-> 3, name |-> "msg.Message", encodeable |-> FALSE],
     [id |-> 4, name |-> "msg.Message", encodeable |-> FALSE]}

\* func (c *Client) registerMessage(message interface{}) bool: the client and
\* the gob registry after the call and the value returned.  reflect.TypeOf of
\* the nil interface is nil and its String() panics; c.messages[t] reads false
\* from a nil map, and c.messages[t] = true on a nil map panics.
registerMessage(c, registered, message) ==
    LET t == message.name
    IN  IF message = NilMessage
        THEN [c |-> c, gob |-> registered, ret |-> "panic"]
        ELSE IF t \notin c.messages.keys
        THEN IF c.messages.nil
             THEN [c |-> c, gob |-> registered, ret |-> "panic"]
             ELSE [c   |-> [c EXCEPT !.messages.keys = @ \cup {t}],
                   gob |-> IF message.encodeable THEN registered
                           ELSE registered \cup {message.id},
                   ret |-> "true"]
        ELSE [c |-> c, gob |-> registered, ret |-> "false"]

(***************************************************************************)
(* Packet construction (part_000, lines 655-730)                           *)
(***************************************************************************)

newPacketConnectAck(properties) ==
    [ZeroPacket EXCEPT !.ptype = ptypeConnack, !.pflags = pflagsConnack,
                       !.properties = properties]

\* A PUBLISH constructor that leaves the quality of service out of the flags,
\* as packet.initPublish of src/packet.go (lines 436-451) does by or-ing it
\* into the misspelt "plags".
newPacketPublishWithoutQoS(properties, payload) ==
    LET dup   == IF properties.DupFlag THEN 8 ELSE 0
        flags == BitOr(dup, IF properties.Retain THEN 1 ELSE 0)
    IN  [ZeroPacket EXCEPT !.ptype = ptypePublish, !.pflags = flags,
                           !.properties = properties, !.payload = payload]

newPacketPublish(properties, payload) ==
    LET qos   == properties.QoSLevel
        dup   == BitOr(qos, IF properties.DupFlag THEN 8 ELSE 0)
        flags == BitOr(dup, IF properties.Retain THEN 1 ELSE 0)
    IN  [ZeroPacket EXCEPT !.ptype = ptypePublish, !.pflags = flags,
                           !.properties = properties, !.payload = payload]

newPacketPublishAck(properties) ==
    [ZeroPacket EXCEPT !.ptype = ptypePuback, !.pflags = pflagsPuback,
                       !.properties = properties, !.payload = NilPayload]

newPacketPublishRec(properties) ==
    [ZeroPacket EXCEPT !.ptype = ptypePubrec, !.pflags = pflagsPubrec,
                       !.properties = properties]

newPacketPublishRel(properties) ==
    [ZeroPacket EXCEPT !.ptype = ptypePubrel, !.pflags = pflagsPubrel,
                       !.properties = properties]

newPacketPublishComp(properties) ==
    [ZeroPacket EXCEPT !.ptype = ptypePubcomp, !.pflags = pflagsPubcomp,
                       !.properties = properties]

newPacketSubscribe(properties, payload) ==
    [ZeroPacket EXCEPT !.ptype = ptypeSubscribe, !.pflags = pflagsSubscribe,
                       !.properties = properties,
                       !.payload = EncodedPayload(SubscribePayloadEncode(payload))]

\* newPacketUnsubscribe(properties UnsubscribePayload, payload
\* UnsubscribePayload): the variable header is an UnsubscribePayload too.
newPacketUnsubscribe(properties, payload) ==
    [ZeroPacket EXCEPT !.ptype = ptypeUnsubscribe, !.pflags = pflagsUnsubscribe,
                       !.properties = properties,
                       !.payload = EncodedPayload(UnsubscribePayloadEncode(payload))]

newPacketUnsubscribeAck(properties) ==
    [ZeroPacket EXCEPT !.ptype = ptypeUnsuback, !.pflags = pflagsUnsuback,
                       !.properties = properties]

newPacketPingReq ==
    [ZeroPacket EXCEPT !.ptype = ptypePingreq, !.pflags = pflagsPingreq]

newPacketPingResp ==
    [ZeroPacket EXCEPT !.ptype = ptypePingresp, !.pflags = pflagsPingresp]

newPacketDisconnect ==
    [ZeroPacket EXCEPT !.ptype = ptypeDisconnect, !.pflags = pflagsDisconnect]

(***************************************************************************)
(* Whole packet encoding and decoding (part_000, lines 611-650)            *)
(***************************************************************************)

\* An encode that does not reset the buffer and writes after what it holds.
encodeWithoutReset(pkt) ==
    LET vheader == PropertiesEncode(pkt.properties)
        length  == Len(vheader.buf)
                       + (IF ~pkt.payload.nil THEN BLen(pkt.payload) ELSE 0)
        control == BitOr(pkt.ptype, pkt.pflags)
        l       == encodeRemainingLength(length)
        withvh  == Write(Write(Write(pkt.buffer, Bytes(<<control>>)), Bytes(l)),
                         Bytes(vheader.buf))
        whole   == IF ~pkt.payload.nil
                   THEN Write(withvh, [b |-> pkt.payload.b, z |-> pkt.payload.z])
                   ELSE withvh
    IN  IF pkt.properties = NilProperties
        THEN [p |-> pkt, err |-> "panic"]
        ELSE IF vheader.err # "nil"
        THEN [p |-> pkt, err |-> vheader.err]
        ELSE [p |-> [pkt EXCEPT !.buffer = whole], err |-> "nil"]

\* An encode whose remaining length counts the variable header alone.
encodeHeaderLengthOnly(pkt) ==
    LET reset   == [pkt EXCEPT !.buffer = Bytes(<<>>)]
        vheader == PropertiesEncode(pkt.properties)
        control == BitOr(pkt.ptype, pkt.pflags)
        l       == encodeRemainingLength(Len(vheader.buf))
        withvh  == Write(Write(Write(reset.buffer, Bytes(<<control>>)), Bytes(l)),
                         Bytes(vheader.buf))
        whole   == IF ~pkt.payload.nil
                   THEN Write(withvh, [b |-> pkt.payload.b, z |-> pkt.payload.z])
                   ELSE withvh
    IN  IF pkt.properties = NilProperties
        THEN [p |-> reset, err |-> "panic"]
        ELSE IF vheader.err # "nil"
        THEN [p |-> reset, err |-> vheader.err]
        ELSE [p |-> [pkt EXCEPT !.buffer = whole], err |-> "nil"]

\* func (p *packet) encode() (err error): the packet after the call and the
\* error returned.  p.properties.Encode() on the nil interface is a run-time
\* panic (nil pointer dereference), after the buffer was reset.  The lengths
\* are uint32 in the source; the payloads of the model keep the sum below 2^31.
encode(pkt) ==
    LET reset == [pkt EXCEPT !.buffer = Bytes(<<>>)]
    IN  IF pkt.properties = NilProperties
        THEN [p |-> reset, err |-> "panic"]
        ELSE LET vheader == PropertiesEncode(pkt.properties)
                 length  == Len(vheader.buf)
                                + (IF ~pkt.payload.nil THEN BLen(pkt.payload) ELSE 0)
                 control == BitOr(pkt.ptype, pkt.pflags)
                 l       == encodeRemainingLength(length)
                 fixed   == Write(Write(reset.buffer, Bytes(<<control>>)), Bytes(l))
                 withvh  == Write(fixed, Bytes(vheader.buf))
                 whole   == IF ~pkt.payload.nil
                            THEN Write(withvh, [b |-> pkt.payload.b, z |-> pkt.payload.z])
                            ELSE withvh
             IN  IF vheader.err # "nil"
                 THEN [p |-> reset, err |-> vheader.err]
                 ELSE [p |-> [pkt EXCEPT !.buffer = whole], err |-> "nil"]

\* func (p *packet) decode(buffer []byte) (err error) { return err }: nothing
\* is read from buffer, no field of the packet is set and err is nil.
decode(pkt, buffer) == [p |-> pkt, err |-> "nil"]

(***************************************************************************)
(* The inputs of the packet operations                                     *)
(***************************************************************************)

PacketIDs == {1, 16, 256, 257, 4660}

\* "", "a" and "a/b" as UTF-8 bytes.
TopicNames == {<<>>, <<97>>, <<97, 47, 98>>}

ReturnCodes == {0, 5}

PayloadBytes == {0, 65}

\* Payloads written out, and zero-filled payloads whose length puts the
\* remaining length of a PUBLISH (4 bytes of variable header) on either side
\* of 268,435,455.
Payloads ==
    {NilPayload}
        \cup {Payload(Bytes(b)) : b \in SeqsUpTo(PayloadBytes, MaxPayload)}
        \cup {Payload(ZeroFilled(MaxRemainingLength - 5 + d)) : d \in 0..2}

PacketIDProperties(kind) == {[kind |-> kind, PacketID |-> id] : id \in PacketIDs}

AllConnectAckProperties ==
    {[kind |-> "ConnectAckProperties", SessionPresent |-> s, ReturnCode |-> c] :
        s \in BOOLEAN, c \in ReturnCodes}

AllPublishProperties ==
    {[kind |-> "PublishProperties", DupFlag |-> d, QoSLevel |-> l, Retain |-> r,
      TopicName |-> t, PacketID |-> id] :
        d \in BOOLEAN, l \in QoSLevel, r \in BOOLEAN, t \in TopicNames,
        id \in PacketIDs}

\* Most entries of a Topics map.
MaxTopics == 2

\* Topic filters: "a", "b" and the byte 0x80, invalid UTF-8.
TopicFilters == {<<97>>, <<98>>, <<128>>}

\* The Topics maps, each in every order the range over a map can take: the
\* sequences of entries with different keys.
AllTopics ==
    {t \in SeqsUpTo([topic : TopicFilters, qos : QoSLevel], MaxTopics) :
        \A i, j \in 1..Len(t) : i # j => t[i].topic # t[j].topic}

\* The first i bytes of bytes.
Prefix(bytes, i) == SubSeq(bytes, 1, i)

\* bytes with the low nibble of its first byte set to flags.
WithFlags(bytes, flags) ==
    [bytes EXCEPT ![1] = (bytes[1] \div 16) * 16 + flags]

\* What a receiver may be handed of an encoded packet: the packet, a part of
\* it that has arrived so far, or the packet with other flags in its first byte.
Received(bytes) ==
    {Prefix(bytes, i) : i \in 0..Len(bytes)}
        \cup (IF bytes = <<>> THEN {} ELSE {WithFlags(bytes, f) : f \in 0..15})

(***************************************************************************)
(* Packet operations                                                       *)
(***************************************************************************)

NoResult == [op |-> "none", err |-> "nil", input |-> <<>>, calls |-> 0]

\* Most calls of encode in a row on one packet.
MaxEncodes == 2

\* What the constructors leave in res.  One packet is followed from its
\* construction on: no packet operation reads another packet.
NewResult == [NoResult EXCEPT !.op = "new"]

\* p := newPacketConnectAck(properties)
NewPacketConnectAck ==
    /\ res.op = "none"
    /\ \E h \in AllConnectAckProperties :
           p' = newPacketConnectAck(h)
    /\ res' = NewResult
    /\ UNCHANGED <<q, rl, str, client, gob, reg>>

\* p := newPacketPublish(properties, payload)
NewPacketPublish ==
    /\ res.op = "none"
    /\ \E h \in AllPublishProperties, d \in Payloads :
           p' = newPacketPublish(h, d)
    /\ res' = NewResult
    /\ UNCHANGED <<q, rl, str, client, gob, reg>>

\* p := newPacketPublishAck(properties)
NewPacketPublishAck ==
    /\ res.op = "none"
    /\ \E h \in PacketIDProperties("PublishAckProperties") :
           p' = newPacketPublishAck(h)
    /\ res' = NewResult
    /\ UNCHANGED <<q, rl, str, client, gob, reg>>

\* p := newPacketPublishRec(properties)
NewPacketPublishRec ==
    /\ res.op = "none"
    /\ \E h \in PacketIDProperties("PublishRecProperties") :
           p' = newPacketPublishRec(h)
    /\ res' = NewResult
    /\ UNCHANGED <<q, rl, str, client, gob, reg>>

\* p := newPacketPublishRel(properties)
NewPacketPublishRel ==
    /\ res.op = "none"
    /\ \E h \in PacketIDProperties("PublishRelProperties") :
           p' = newPacketPublishRel(h)
    /\ res' = NewResult
    /\ UNCHANGED <<q, rl, str, client, gob, reg>>

\* p := newPacketPublishComp(properties)
NewPacketPublishComp ==
    /\ res.op = "none"
    /\ \E h \in PacketIDProperties("PublishCompProperties") :
           p' = newPacketPublishComp(h)
    /\ res' = NewResult
    /\ UNCHANGED <<q, rl, str, client, gob, reg>>

\* p := newPacketUnsubscribeAck(properties)
NewPacketSubscribe ==
    /\ res.op = "none"
    /\ \E h \in PacketIDProperties("SubscribeProperties"), topics \in AllTopics :
           p' = newPacketSubscribe(h, [Topics |-> topics])
    /\ res' = NewResult
    /\ UNCHANGED <<q, rl, str, client, gob, reg>>

NewPacketUnsubscribe ==
    /\ res.op = "none"
    /\ \E header \in AllTopics, topics \in AllTopics :
           p' = newPacketUnsubscribe([kind |-> "UnsubscribePayload", Topics |-> header],
                                     [Topics |-> topics])
    /\ res' = NewResult
    /\ UNCHANGED <<q, rl, str, client, gob, reg>>

NewPacketUnsubscribeAck ==
    /\ res.op = "none"
    /\ \E h \in PacketIDProperties("UnsubscribeAckProperties") :
           p' = newPacketUnsubscribeAck(h)
    /\ res' = NewResult
    /\ UNCHANGED <<q, rl, str, client, gob, reg>>

\* p := newPacketPingReq()
NewPacketPingReq ==
    /\ res.op = "none"
    /\ p' = newPacketPingReq
    /\ res' = NewResult
    /\ UNCHANGED <<q, rl, str, client, gob, reg>>

\* p := newPacketPingResp()
NewPacketPingResp ==
    /\ res.op = "none"
    /\ p' = newPacketPingResp
    /\ res' = NewResult
    /\ UNCHANGED <<q, rl, str, client, gob, reg>>

\* p := newPacketDisconnect()
NewPacketDisconnect ==
    /\ res.op = "none"
    /\ p' = newPacketDisconnect
    /\ res' = NewResult
    /\ UNCHANGED <<q, rl, str, client, gob, reg>>

\* err := p.encode()
Encode ==
    /\ res.err # "panic"
    /\ res.calls < MaxEncodes
    /\ LET r == encode(p)
       IN  /\ p' = r.p
           /\ res' = [NoResult EXCEPT !.op = "encode", !.err = r.err,
                                      !.calls = res.calls + 1]
    /\ UNCHANGED <<q, rl, str, client, gob, reg>>

\* err := q.decode(buffer), buffer taken from the bytes p.encode() produced.
Decode ==
    /\ res.op = "encode"
    /\ res.err = "nil"
    /\ p.buffer.z = 0
    /\ \E buffer \in Received(p.buffer.b) :
           LET r == decode(q, buffer)
           IN  /\ q' = r.p
               /\ res' = [NoResult EXCEPT !.op = "decode", !.err = r.err,
                                          !.input = buffer]
    /\ UNCHANGED <<p, rl, str, client, gob, reg>>

(***************************************************************************)
(* The string and field routines applied to their inputs                   *)
(***************************************************************************)

\* Longest string written out byte by byte over StringBytes.
MaxString == 3

\* The bytes the strings are made of: NUL, a C0 control, 'A', DEL, the lead
\* byte 0xC2 with the continuations 0x80 and 0x9F (U+0080 and U+009F, C1
\* controls; alone, invalid UTF-8) and 0xC3 0xA9 (U+00E9, printable).
StringBytes == {0, 31, 65, 127, 194, 128, 159, 195, 169}

\* 'A' repeated n times.
Repeat(n) == [i \in 1..n |-> 65]

\* Strings whose length needs the high nibble of the low byte of the length
\* prefix, and those around the longest client identifier.
LongStrings == {Repeat(n) : n \in {16, 23, 24}}

\* Strings whose length needs the high byte of the length prefix.
LongerStrings == {Repeat(n) : n \in {256, 272}}

Strings == SeqsUpTo(StringBytes, MaxString) \cup LongStrings

NoField == [op |-> "none", s |-> <<>>, size |-> 0, buf |-> <<>>, out |-> <<>>,
            err |-> "nil", h |-> ZeroConnectProperties,
            payload |-> ZeroConnectPayload]

\* err := writeIfValidUtf8(&buffer, s, true), buffer empty before the call.
WriteIfValidUtf8 ==
    /\ str.op = "none"
    /\ \E s \in Strings \cup LongerStrings :
           LET r == writeIfValidUtf8(<<>>, s, TRUE)
           IN  str' = [NoField EXCEPT !.op = "write", !.s = s, !.buf = r.buf,
                                      !.err = r.err]
    /\ UNCHANGED <<p, q, res, rl, client, gob, reg>>

\* s, err := readIfValidUtf8(&buffer, size), buffer holding what
\* writeIfValidUtf8 wrote after its two length bytes and size = len(s).
ReadWritten ==
    /\ str.op = "write"
    /\ str.err = "nil"
    /\ LET body == SubSeq(str.buf, 3, Len(str.buf))
           r    == readIfValidUtf8(body, Len(str.s))
       IN  str' = [str EXCEPT !.op = "writeread", !.size = Len(str.s),
                              !.out = r.s, !.err = r.err, !.buf = r.buf]
    /\ UNCHANGED <<p, q, res, rl, client, gob, reg>>

\* s, err := readIfValidUtf8(&buffer, size) on any bytes, size their number.
ReadIfValidUtf8 ==
    /\ str.op = "none"
    /\ \E s \in Strings :
           LET r == readIfValidUtf8(s, Len(s))
           IN  str' = [NoField EXCEPT !.op = "read", !.s = s, !.size = Len(s),
                                      !.out = r.s, !.err = r.err, !.buf = r.buf]
    /\ UNCHANGED <<p, q, res, rl, client, gob, reg>>

\* "MQTT" and the empty protocol name.
ProtocolNames == {<<>>, <<77, 81, 84, 84>>}

KeepAlives == {0, 10, 60, 256, 4660}

AllConnectProperties ==
    [ProtocolName : ProtocolNames, ProtocolLevel : {4}, CleanSession : BOOLEAN,
     WillFlag : BOOLEAN, WillQoS : BOOLEAN, WillRetain : BOOLEAN,
     UserName : BOOLEAN, Password : BOOLEAN, KeepAlive : KeepAlives]

\* Will topics, will messages, user names (0x80 alone is invalid UTF-8) and
\* passwords of a CONNECT payload.
WillTopics == {<<>>, <<65>>}

UserNames == {<<>>, <<65>>, <<128>>}

Passwords == {<<>>, <<0>>}

AllConnectPayloads ==
    [Identifier : Strings, WillTopic : WillTopics, WillMessage : WillTopics,
     UserName : UserNames, Password : Passwords]

\* buf, err := h.Encode() for a ConnectProperties h.
ConnectPropertiesEncodeCall ==
    /\ str.op = "none"
    /\ \E h \in AllConnectProperties :
           LET r == ConnectPropertiesEncode(h)
           IN  str' = [NoField EXCEPT !.op = "properties", !.h = h, !.buf = r.buf,
                                      !.err = r.err]
    /\ UNCHANGED <<p, q, res, rl, client, gob, reg>>

\* buf, err := payload.Encode() for a ConnectPayload payload.
ConnectPayloadEncodeCall ==
    /\ str.op = "none"
    /\ \E pl \in AllConnectPayloads :
           LET r == ConnectPayloadEncode(pl)
           IN  str' = [NoField EXCEPT !.op = "payload", !.payload = pl,
                                      !.buf = r.buf, !.err = r.err]
    /\ UNCHANGED <<p, q, res, rl, client, gob, reg>>

(***************************************************************************)
(* The Client operations applied to their inputs                           *)
(***************************************************************************)

ClientNames == {"", "a", "b"}

TopicNamesOfClient == {"", "my-sub-topic", "my-pub-topic"}

\* No call yet; seen holds the ids of the message types given so far.
NoRegistration ==
    [op |-> "none", topic |-> "", message |-> NilMessage, ret |-> "none",
     first |-> FALSE, seen |-> {}]

\* What a call with the Topic{Name: name, Message: message} leaves in reg.
Registration(op, name, message, r) ==
    [op |-> op, topic |-> name, message |-> message, ret |-> r.ret,
     first |-> message.id \notin reg.seen, seen |-> reg.seen \cup {message.id}]

\* client := wavemq.Client{Name: name, Persist: persist}; an application
\* cannot set the unexported maps.
NewClient ==
    /\ reg.op = "none"
    /\ client = ZeroClient
    /\ \E name \in ClientNames, persist \in BOOLEAN :
           client' = [ZeroClient EXCEPT !.Name = name, !.Persist = persist]
    /\ UNCHANGED <<p, q, res, rl, str, gob, reg>>

\* client.SubscribeTo(topic); a panic ends the program.
SubscribeTo ==
    /\ reg.ret # "panic"
    /\ \E name \in TopicNamesOfClient, message \in MessageTypes \cup {NilMessage} :
           LET r == registerMessage(client, gob, message)
           IN  /\ client' = r.c
               /\ gob' = r.gob
               /\ reg' = Registration("SubscribeTo", name, message, r)
    /\ UNCHANGED <<p, q, res, rl, str>>

\* client.PublishOn(topic); a panic ends the program.
PublishOn ==
    /\ reg.ret # "panic"
    /\ \E name \in TopicNamesOfClient, message \in MessageTypes \cup {NilMessage} :
           LET r == registerMessage(client, gob, message)
           IN  /\ client' = r.c
               /\ gob' = r.gob
               /\ reg' = Registration("PublishOn", name, message, r)
    /\ UNCHANGED <<p, q, res, rl, str>>

(***************************************************************************)
(* Claims about the remaining-length routines (checked under SpecVarint)   *)
(***************************************************************************)

\* The value a base-128 digit sequence stands for, least significant digit
\* first (MQTT 3.1.1, 2.2.3): what the claims compare the routines with.
RECURSIVE VarintValue(_)
VarintValue(bytes) ==
    IF bytes = <<>> THEN 0
    ELSE (Head(bytes) % 128) + 128 * VarintValue(Tail(bytes))

\* The input ends before a byte without the continuation bit was read.
Truncated(bytes) ==
    /\ Len(bytes) <= 3
    /\ \A i \in 1..Len(bytes) : bytes[i] >= 128

\* C1: for every n with 0 <= n <= 268435455, decodeRemainingLength applied to
\* the bytes of encodeRemainingLength(n) returns n with no error.
C1_RoundTrip ==
    (rl.op = "roundtrip" /\ rl.n <= MaxRemainingLength)
        => (rl.err = "nil" /\ rl.value = rl.n)

\* C2: for every n with 0 <= n <= 268435455, encodeRemainingLength(n) is the
\* minimal base-128 encoding of n: 1 to 4 bytes, the continuation bit set on
\* every byte but the last and clear on the last, and no shorter sequence
\* holds n.
C2_MinimalEncoding ==
    (rl.op \in {"encode", "roundtrip"} /\ rl.n <= MaxRemainingLength)
        => LET k == Len(rl.enc)
           IN  /\ k \in 1..4
               /\ \A i \in 1..(k - 1) : rl.enc[i] >= 128
               /\ rl.enc[k] < 128
               /\ VarintValue(rl.enc) = rl.n
               /\ (k > 1 => rl.n >= Pow128(k - 1))

\* C5: decodeRemainingLength returns the malformed-remaining-length error
\* exactly when the first four bytes of its input all carry the continuation
\* bit; so it fails on the encoding of every n > 268435455 and succeeds on
\* every well-formed sequence of 1 to 4 bytes.
C5_MalformedExactly ==
    (rl.op \in {"decode", "roundtrip", "read"})
        => ((rl.err = "Malformed remaining length")
               <=> (/\ Len(rl.input) >= 4
                    /\ \A i \in 1..4 : rl.input[i] >= 128))

\* C6: when the input ends before a byte with a clear high bit was read
\* (empty, or 1 to 3 continuation bytes), decodeRemainingLength returns an
\* incomplete-input error, which is not the malformed-remaining-length error,
\* and does not crash.
C6_IncompleteInput ==
    (rl.op \in {"decode", "read"} /\ Truncated(rl.input))
        => rl.err \notin {"nil", "Malformed remaining length", "panic"}

\* C9: a decode call that fails leaves the input buffer as it was before the
\* call: no byte is consumed, so the call can be retried on a longer buffer.
C9_FailureConsumesNothing ==
    (rl.op \in {"decode", "read"} /\ rl.err # "nil")
        => rl.buffer = rl.input


(***************************************************************************)
(* Claims about the packet codec (checked under Spec)                      *)
(***************************************************************************)

\* The flags a control packet type requires in its first byte (part_000,
\* lines 55-80); PUBLISH has none.
RequiredFlags(ptype) ==
    CASE ptype = ptypeConnect -> pflagsConnect
      [] ptype = ptypeConnack -> pflagsConnack
      [] ptype = ptypePuback -> pflagsPuback
      [] ptype = ptypePubrec -> pflagsPubrec
      [] ptype = ptypePubrel -> pflagsPubrel
      [] ptype = ptypePubcomp -> pflagsPubcomp
      [] ptype = ptypeSubscribe -> pflagsSubscribe
      [] ptype = ptypeSuback -> pflagsSuback
      [] ptype = ptypeUnsubscribe -> pflagsUnsubscribe
      [] ptype = ptypeUnsuback -> pflagsUnsuback
      [] ptype = ptypePingreq -> pflagsPingreq
      [] ptype = ptypePingresp -> pflagsPingresp
      [] ptype = ptypeDisconnect -> pflagsDisconnect

NonPublishTypes ==
    {ptypeConnect, ptypeConnack, ptypePuback, ptypePubrec, ptypePubrel,
     ptypePubcomp, ptypeSubscribe, ptypeSuback, ptypeUnsubscribe,
     ptypeUnsuback, ptypePingreq, ptypePingresp, ptypeDisconnect}

\* The number of bytes that follow the fixed header's first byte in p: the
\* variable header and the payload.
BodySize(pkt) ==
    Len(PropertiesEncode(pkt.properties).buf)
        + (IF pkt.payload.nil THEN 0 ELSE BLen(pkt.payload))

\* The length of the remaining-length field of an encoded packet: the bytes
\* after the first up to and with the first one without the continuation bit.
RECURSIVE FieldLength(_, _)
FieldLength(bytes, i) ==
    IF i > Len(bytes) THEN 0
    ELSE IF bytes[i] < 128 THEN 1
    ELSE 1 + FieldLength(bytes, i + 1)

\* The packet record a decode filled in is the packet that was encoded.
SamePacket(a, b) ==
    /\ a.ptype = b.ptype
    /\ a.pflags = b.pflags
    /\ a.properties = b.properties
    /\ a.payload.b = b.payload.b
    /\ a.payload.z = b.payload.z

\* C3: encodeRemainingLength(0) is the single byte 0x00, so PINGREQ, PINGRESP
\* and DISCONNECT, which have no variable header and no payload, encode to
\* exactly two bytes: the control byte and 0x00.
C3_EmptyPacketTwoBytes ==
    (res.op = "encode" /\ p.ptype \in {ptypePingreq, ptypePingresp, ptypeDisconnect})
        => /\ encodeRemainingLength(0) = <<0>>
           /\ res.err = "nil"
           /\ p.buffer = Bytes(<<BitOr(p.ptype, p.pflags), 0>>)

\* C4: packet.encode returns an error, with no remaining-length byte
\* produced, for every packet whose variable header and payload together
\* exceed 268,435,455 bytes; it never emits a remaining-length field of more
\* than 4 bytes.
C4_OversizeRejected ==
    (res.op = "encode" /\ p.properties # NilProperties)
        => /\ BodySize(p) > MaxRemainingLength
                => (res.err # "nil" /\ BLen(p.buffer) = 0)
           /\ FieldLength(p.buffer.b, 2) <= 4

\* C7: decoding the bytes that encoding a packet produced yields that
\* packet: the same kind, flags, variable-header fields and payload.
C7_PacketRoundTrip ==
    (res.op = "decode" /\ res.input = p.buffer.b)
        => (res.err = "nil" /\ SamePacket(q, p))

\* C8: for an encoded packet of N bytes, decode of each strict prefix of
\* length 1..N-1 returns Incomplete (not Malformed, not a packet), and decode
\* of all N bytes returns the packet.
C8_PartialBuffer ==
    (res.op = "decode" /\ res.input = Prefix(p.buffer.b, Len(res.input)))
        => /\ Len(res.input) \in 1..(Len(p.buffer.b) - 1) => res.err = "Incomplete"
           /\ Len(res.input) = Len(p.buffer.b)
                => (res.err = "nil" /\ q.ptype = p.ptype /\ q.pflags = p.pflags)

\* C10: decoding a packet that is not a PUBLISH and whose first byte's low
\* nibble is not the flags its type requires fails with a reserved-flag
\* error: 0x60 is rejected as a PUBREL and 0x62 accepted.
C10_ReservedFlags ==
    (/\ res.op = "decode"
     /\ res.input # <<>>
     /\ (res.input[1] \div 16) * 16 \in NonPublishTypes)
        => LET ptype == (res.input[1] \div 16) * 16
               flags == res.input[1] % 16
           IN  (flags # RequiredFlags(ptype)) <=> (res.err # "nil")

(***************************************************************************)
(* Claims about the packet fields (checked under Spec and SpecFields)      *)
(***************************************************************************)

C12_EncodeLayout ==
    (res.op = "encode" /\ res.err = "nil") =>
        LET b        == p.buffer.b
            vh       == PropertiesEncode(p.properties).buf
            payloadb == IF p.payload.nil THEN <<>> ELSE p.payload.b
            payloadz == IF p.payload.nil THEN 0 ELSE p.payload.z
            k        == FieldLength(b, 2)
            field    == SubSeq(b, 2, 1 + k)
        IN  /\ k >= 1
            /\ Len(b) >= 1 + k
            /\ (b[1] \div 16) * 16 = p.ptype
            /\ b[1] % 16 = p.pflags
            /\ field[k] < 128
            /\ k = 1 \/ field[k] # 0
            /\ VarintValue(field) = Len(vh) + Len(payloadb) + payloadz
            /\ VarintValue(field) = BLen(p.buffer) - 1 - k
            /\ SubSeq(b, 2 + k, Len(b)) = vh \o payloadb
            /\ p.buffer.z = payloadz

\* A PUBLISH with a payload of two bytes was encoded: control byte, a
\* remaining length of 6, four bytes of variable header, the payload.
C12_Witness ==
    /\ res.op = "encode"
    /\ res.err = "nil"
    /\ p.ptype = ptypePublish
    /\ ~p.payload.nil
    /\ BLen(p.payload) = 2
    /\ Len(p.buffer.b) = 8
    /\ p.buffer.b[2] = 6

\* A string MQTT allows: valid UTF-8 without U+0000, U+0001..U+001F and
\* U+007F..U+009F.  (The runes of an all-ASCII string are its bytes.)
AllowedString(s) ==
    IF \A i \in 1..Len(s) : s[i] < 128
    THEN \A i \in 1..Len(s) : s[i] \in 32..126
    ELSE \A i \in 1..Len(Runes(s)) :
             LET r == Runes(s)[i]
             IN  r # ReplacementChar /\ r # 0 /\ ~(r <= 31 \/ r \in 127..159)

\* The two bytes writeIfValidUtf8 puts ahead of the string s.
LengthPrefix(s) == SubSeq(writeIfValidUtf8(<<>>, s, TRUE).buf, 1, 2)

\* C13: for every valid string s of L bytes the length-prefixed encoding is
\* the two bytes L div 256 and L mod 256 followed by exactly the L bytes of
\* s, and strings of different lengths get different prefixes.
C13_LengthPrefixed ==
    /\ (str.op = "write" /\ AllowedString(str.s))
           => /\ str.err = "nil"
              /\ str.buf = <<Len(str.s) \div 256, Len(str.s) % 256>> \o str.s
    /\ (str.op = "write")
           => \A other \in {<<>>} \cup LongStrings \cup LongerStrings :
                  Len(other) # Len(str.s)
                      => LengthPrefix(other) # SubSeq(str.buf, 1, 2)

\* C14: writeIfValidUtf8 returns an error for every string with U+0000, a
\* character of U+0001..U+001F or U+007F..U+009F, or an invalid UTF-8
\* sequence anywhere in it, and no error for every other string.
C14_RejectsExactlyForbidden ==
    (str.op = "write") => ((str.err # "nil") <=> ~AllowedString(str.s))

\* C15: for every string s of printable characters, readIfValidUtf8 on the
\* bytes writeIfValidUtf8 wrote for s, with size the byte length of s,
\* succeeds and returns s, nothing prepended or appended.
C15_StringRoundTrip ==
    /\ (str.op = "write" /\ AllowedString(str.s)) => str.err = "nil"
    /\ (str.op = "writeread")
           => /\ str.err = "nil"
              /\ str.out = str.s
              /\ str.buf = <<>>

\* C16: ConnectPayload.Encode succeeds for every client identifier of 1 to
\* 23 characters of A-Z, a-z and 0-9 (the other fields being encodable), and
\* fails with an invalid-client-identifier error for every identifier that
\* is empty, longer than 23 characters or has any other character.
C16_ClientIdentifier ==
    (str.op = "payload") =>
        LET id    == str.payload.Identifier
            valid == /\ Len(id) \in 1..23
                     /\ \A i \in 1..Len(id) : id[i] \in Alnum
            rest  == /\ AllowedString(str.payload.WillTopic)
                     /\ AllowedString(str.payload.WillMessage)
                     /\ AllowedString(str.payload.UserName)
        IN  /\ (valid /\ rest) => str.err = "nil"
            /\ ~valid => str.err \in
                   {"Client identifier must only contain characters",
                    "Client identifier must be between 1 and 23 bytes"}

\* C20: the CONNECT variable header is the length-prefixed protocol name,
\* the protocol level byte, the connect-flags byte and the 16-bit keep-alive,
\* in that order; in the flags byte bit 7 is username, bit 6 password, bit 5
\* will-retain, bits 4-3 the will QoS, bit 2 the will flag, bit 1 clean
\* session and bit 0 is 0.
C20_ConnectVariableHeader ==
    (str.op = "properties") =>
        LET h     == str.h
            name  == h.ProtocolName
            flags == (IF h.UserName THEN 128 ELSE 0)
                         + (IF h.Password THEN 64 ELSE 0)
                         + (IF h.WillRetain THEN 32 ELSE 0)
                         + (IF h.WillQoS THEN 1 ELSE 0) * 8
                         + (IF h.WillFlag THEN 4 ELSE 0)
                         + (IF h.CleanSession THEN 2 ELSE 0)
        IN  /\ str.err = "nil"
            /\ str.buf = <<Len(name) \div 256, Len(name) % 256>> \o name
                             \o <<h.ProtocolLevel, flags>>
                             \o <<h.KeepAlive \div 256, h.KeepAlive % 256>>
            /\ flags % 2 = 0

\* C17: building a SUBSCRIBE or an UNSUBSCRIBE packet with no topic entry
\* fails with an error that reaches the caller of the constructor or of
\* encode; no SUBSCRIBE or UNSUBSCRIBE packet with an empty payload is ever
\* produced.
C17_NoEmptySubscription ==
    (res.op = "encode" /\ p.ptype \in {ptypeSubscribe, ptypeUnsubscribe})
        => IF p.payload.nil \/ BLen(p.payload) = 0
           THEN res.err # "nil" /\ BLen(p.buffer) = 0
           ELSE TRUE

\* The variable-header bytes of an encoded packet: what lies between the
\* remaining-length field and the payload.
VariableHeader(pkt) ==
    LET b == pkt.buffer.b
        k == FieldLength(b, 2)
    IN  SubSeq(b, 2 + k, Len(b) - (IF pkt.payload.nil THEN 0 ELSE Len(pkt.payload.b)))

\* C18: the variable header of an encoded PUBLISH is the length-prefixed
\* topic name (two length bytes and the topic bytes), followed by the two
\* bytes of the packet identifier when QoS > 0 and by nothing when QoS = 0.
C18_PublishVariableHeader ==
    (res.op = "encode" /\ p.ptype = ptypePublish) =>
        LET h     == p.properties
            topic == h.TopicName
        IN  /\ res.err = "nil"
            /\ VariableHeader(p)
                   = <<Len(topic) \div 256, Len(topic) % 256>> \o topic
                       \o (IF h.QoSLevel > 0
                           THEN <<h.PacketID \div 256, h.PacketID % 256>>
                           ELSE <<>>)

\* C19: for PUBACK, PUBREC, PUBREL and PUBCOMP the encoded variable header
\* is the two bytes id div 256 and id mod 256 of the packet identifier, and
\* two different packet identifiers never encode to the same bytes.
C19_AckPacketIdentifier ==
    (res.op = "encode"
         /\ p.ptype \in {ptypePuback, ptypePubrec, ptypePubrel, ptypePubcomp}) =>
        LET id == p.properties.PacketID
        IN  /\ res.err = "nil"
            /\ VariableHeader(p) = <<id \div 256, id % 256>>
            /\ \A other \in PacketIDs :
                   other # id =>
                       PropertiesEncode([p.properties EXCEPT !.PacketID = other]).buf
                           # VariableHeader(p)

C30_RegisterOnce ==
    /\ []((reg.op # "none" /\ reg.message # NilMessage) =>
              /\ reg.ret = (IF reg.first THEN "true" ELSE "false")
              /\ reg.message.name \in client.messages.keys)
    /\ [][/\ client.messages.keys \subseteq client'.messages.keys
          /\ (reg'.op # "none" /\ ~reg'.first) => client' = client]_vars

(***************************************************************************)
(* Specifications                                                          *)
(***************************************************************************)

Init ==
    /\ p = ZeroPacket
    /\ q = ZeroPacket
    /\ res = NoResult
    /\ rl = NoCall
    /\ str = NoField
    /\ client = ZeroClient
    /\ gob = {}
    /\ reg = NoRegistration

NextVarint ==
    \/ EncodeRemainingLength
    \/ DecodeEncoded
    \/ DecodeRemainingLength
    \/ DecodeRemainingLengthBuffer

SpecVarint == Init /\ [][NextVarint]_vars

NextFields ==
    \/ WriteIfValidUtf8
    \/ ReadWritten
    \/ ReadIfValidUtf8
    \/ ConnectPropertiesEncodeCall
    \/ ConnectPayloadEncodeCall

SpecFields == Init /\ [][NextFields]_vars

NextClient ==
    \/ NewClient
    \/ SubscribeTo
    \/ PublishOn

SpecClient == Init /\ [][NextClient]_vars

Next ==
    \/ NewPacketConnectAck
    \/ NewPacketPublish
    \/ NewPacketPublishAck
    \/ NewPacketPublishRec
    \/ NewPacketPublishRel
    \/ NewPacketPublishComp
    \/ NewPacketSubscribe
    \/ NewPacketUnsubscribe
    \/ NewPacketUnsubscribeAck
    \/ NewPacketPingReq
    \/ NewPacketPingResp
    \/ NewPacketDisconnect
    \/ Encode
    \/ Decode

Spec == Init /\ [][Next]_vars

====
